---- MODULE Spec2Model ----
(***************************************************************************)
(* The balance / purchase / verification flow of src/server/storage.ts.    *)
(*                                                                         *)
(* The database tables are the variables users, listings, purchases,       *)
(* payments, gifts and referrals.  Every HTTP handler is an async function *)
(* that yields at each `await storage.x(...)`; a request in flight is a    *)
(* record in reqs holding the handler's position (pc) and its locals, and  *)
(* there is one action per awaited storage call.  The hourly expiry sweep  *)
(* (setInterval) is a request of kind "sweep" without a session.           *)
(*                                                                         *)
(* Money is counted in whole currency units.  Every amount the model draws *)
(* is a whole number of units, for which parseFloat and toFixed(2) are     *)
(* exact; the administrator's seeded balance "999999999.99" is carried as  *)
(* its whole part (it is never debited, and TLC integers have 32 bits).    *)
(* Time is counted in calendar months.                                     *)
(***************************************************************************)
EXTENDS Integers, Sequences, FiniteSets, TLC

VARIABLES users, listings, purchases, payments, gifts, referrals, now, reqs,
          pre, begun, serial,
          sessions,          \* the users that hold a session (req.session.userId)
          connectedClients,  \* Map<userId, Set<WebSocket>>
          onlineUsers,       \* Map<userId, lastSeen>
          sockets,           \* the WebSocket connections and their closures
          announced          \* the last presence broadcast sent for each user

db == <<users, listings, purchases, payments, gifts, referrals>>
chat == <<connectedClients, onlineUsers, sockets, announced>>
vars == <<users, listings, purchases, payments, gifts, referrals, now, reqs,
          pre, begun, serial, sessions, chat>>

---------------------------------------------------------------------------
(* Bounds of the model *)
MaxUsers == 2
MaxListings == 1
MaxPurchases == 2
MaxPayments == 2
MaxGifts == 1
MaxTime == 2
MaxInFlight == 2
MaxRequests == 4
MaxSockets == 2

(* Program constants *)
Admin == 0
AdminBalance == 999999999
DefaultBalance == 2500
VerificationCost == 5000
ReferrerBonus == 100
ReferredBonus == 50
OneMonth == 1

(* Inputs the requests draw from *)
Prices == {-3000, 1000, 3000}
GiftAmounts == {7500}
\* outcomes of randomUUID().slice(0, 8)
Uuids == {"0A1B2C3D", "4E5F6A7B"}
Slots == 1..MaxInFlight
Sockets == 1..MaxSockets

(* SQL NULL / JavaScript null and undefined: the empty tuple; a present   *)
(* value v of a nullable column is <<v>>.                                  *)
Null == <<>>
Some(v) == <<v>>

---------------------------------------------------------------------------
(* Rows *)

\* users table defaults (schema) for a row inserted by createUser
NewUser ==
  [ balance |-> DefaultBalance, isAdmin |-> FALSE, hasInfiniteBalance |-> FALSE,
    isVerified |-> FALSE, verificationExpiry |-> Null,
    verificationGrantedBy |-> Null, totalEarnings |-> 0,
    isSuspended |-> FALSE ]

\* the row left by initAdminAccount: createUser, then updateUser
AdminUser ==
  [ NewUser EXCEPT !.isAdmin = TRUE, !.hasInfiniteBalance = TRUE,
                   !.balance = AdminBalance, !.isVerified = TRUE ]

\* a request slot that runs no handler.  userId is req.session.userId, id the
\* :id / :userId / body.userId parameter, amount the price or body.amount;
\* listing and user are the rows the handler has read, peer the second
\* account it has read (seller, referrer), date the Date it has computed.
IdleReq ==
  [ kind |-> "none", pc |-> "idle", userId |-> Admin, id |-> 0, amount |-> 0,
    isVerified |-> FALSE, referralCode |-> Null,
    listing |-> Null, user |-> Null, peer |-> Null, date |-> 0,
    session |-> Null, isSuspended |-> FALSE,
    res |-> "none" ]

\* a WebSocket not yet connected: `let userId = null`, and the auth
\* messages whose handler is suspended at `await storage.getUser(userId)`
NewSocket == [state |-> "none", userId |-> Null, pending |-> {}]

\* no socket connected, nobody online, nothing announced
NoChat ==
  /\ connectedClients = [u \in {} |-> {}]
  /\ onlineUsers = [u \in {} |-> 0]
  /\ sockets = [s \in Sockets |-> NewSocket]
  /\ announced = [u \in {} |-> "user_online"]

InFlight(r) == reqs[r].pc \notin {"idle", "done"}

\* a table of `rows` rows has room for the row a request of this kind inserts
RoomFor(kind, rows, max) ==
  rows + Cardinality({r \in DOMAIN reqs : InFlight(r) /\ reqs[r].kind = kind}) < max

---------------------------------------------------------------------------
(* Storage methods (DatabaseStorage) as functions of the tables *)

updateUserBalance(id, newBalance) ==
  [users EXCEPT ![id].balance = newBalance]

hasPurchased(userId, listingId) ==
  \E i \in 1..Len(purchases) :
    purchases[i].buyerId = userId /\ purchases[i].listingId = listingId

\* a log that is emptied when a record is added to a log that holds one
createPurchaseEmptied(purchase, uuid) ==
  IF purchases # <<>> THEN <<>>
  ELSE <<[buyerId |-> purchase.buyerId, sellerId |-> purchase.sellerId,
          listingId |-> purchase.listingId, amount |-> purchase.amount,
          transactionId |-> <<now, uuid>>]>>

\* `TXN${Date.now()}${randomUUID().slice(0, 8).toUpperCase()}`: the time and
\* the first 8 hexadecimal digits of a random UUID. Two calls at the same
\* clock value may fall in the same millisecond.
TransactionId(t, uuid) == <<t, uuid>>

\* insert into purchases values ({...purchase, transactionId})
createPurchase(purchase, uuid) ==
  Append(purchases,
         [buyerId |-> purchase.buyerId, sellerId |-> purchase.sellerId,
          listingId |-> purchase.listingId, amount |-> purchase.amount,
          transactionId |-> TransactionId(now, uuid)])

createMoneyGift(gift) == Append(gifts, gift)

createReferral(referrerId, referredId) ==
  Append(referrals, [referrerId |-> referrerId, referredId |-> referredId])

\* getUserByReferralCode: the code of user u is modelled by u itself
getUserByReferralCode(code) ==
  IF code # Null /\ code[1] \in DOMAIN users THEN Some(code[1]) ELSE Null

---------------------------------------------------------------------------
Init ==
  /\ users = (Admin :> AdminUser)
  /\ listings = <<>>
  /\ purchases = <<>>
  /\ payments = <<>>
  /\ gifts = <<>>
  /\ referrals = <<>>
  /\ now = 0
  /\ reqs = [r \in Slots |-> IdleReq]
  /\ pre = [users |-> (Admin :> AdminUser), purchases |-> <<>>,
            payments |-> <<>>, gifts |-> <<>>]
  /\ begun = 0
  /\ serial = FALSE
  /\ sessions = {Admin}
  /\ NoChat

\* the same start for a server that is sent one request at a time: each
\* answer, and the database the request found (pre), are kept for inspection
InitSeq ==
  /\ users = (Admin :> AdminUser)
  /\ listings = <<>>
  /\ purchases = <<>>
  /\ payments = <<>>
  /\ gifts = <<>>
  /\ referrals = <<>>
  /\ now = 0
  /\ reqs = [r \in Slots |-> IdleReq]
  /\ pre = [users |-> (Admin :> AdminUser), purchases |-> <<>>,
            payments |-> <<>>, gifts |-> <<>>]
  /\ begun = 0
  /\ serial = TRUE
  /\ sessions = {Admin}
  /\ NoChat

(* What a finished handler leaves in its slot: its inputs and its answer. *)
Finished(q, code) ==
  [ IdleReq EXCEPT !.kind = q.kind, !.pc = "done", !.userId = q.userId,
                   !.id = q.id, !.amount = q.amount,
                   !.isVerified = q.isVerified,
                   !.referralCode = q.referralCode, !.date = q.date,
                   !.session = q.session, !.isSuspended = q.isSuspended,
                   !.res = code ]

Respond(r, code) ==
  reqs' = [reqs EXCEPT ![r] = IF serial THEN Finished(reqs[r], code) ELSE IdleReq]

Goto(r, q, pc) == reqs' = [reqs EXCEPT ![r] = [q EXCEPT !.pc = pc]]

At(r, kind, pc) == reqs[r].kind = kind /\ reqs[r].pc = pc

\* the tables as a request finds them
Snapshot ==
  [users |-> users, purchases |-> purchases, payments |-> payments, gifts |-> gifts]

Quiet == \A s \in DOMAIN reqs : ~InFlight(s)

\* a request (or the sweep's timer) arrives and takes the first free slot
Begin(r, q) ==
  /\ begun < MaxRequests
  /\ ~InFlight(r)
  /\ \A s \in 1..(r - 1) : InFlight(s)
  /\ serial => Quiet
  /\ reqs' = [reqs EXCEPT ![r] = q]
  /\ begun' = begun + 1
  /\ pre' = IF serial THEN Snapshot ELSE pre
  /\ UNCHANGED <<db, now, serial, sessions, chat>>

---------------------------------------------------------------------------
(* POST /api/auth/signup *)

\* the request arrives; getUserByUsername finds the (fresh) name free
BeginSignup(r) ==
  /\ RoomFor("signup", Cardinality(DOMAIN users) - 1, MaxUsers)
  /\ \E code \in {Null} \cup {Some(u) : u \in DOMAIN users} :
       Begin(r, [IdleReq EXCEPT !.kind = "signup", !.pc = "createUser",
                                !.referralCode = code])

\* storage.createUser: the new row gets the next id and the schema defaults
SignupCreateUser(r) ==
  /\ At(r, "signup", "createUser")
  /\ LET id == Cardinality(DOMAIN users)
         q  == [reqs[r] EXCEPT !.userId = id, !.user = Some(NewUser)]
     IN /\ users' = users @@ (id :> NewUser)
        /\ Goto(r, q, IF q.referralCode # Null THEN "getReferrer" ELSE "tail")
  /\ UNCHANGED <<listings, purchases, payments, gifts, referrals, now, pre, begun, serial, sessions, chat>>

\* storage.getUserByReferralCode
SignupGetReferrer(r) ==
  /\ At(r, "signup", "getReferrer")
  /\ LET referrer == getUserByReferralCode(reqs[r].referralCode)
     IN IF referrer = Null
        THEN Goto(r, reqs[r], "tail")
        ELSE Goto(r, [reqs[r] EXCEPT !.id = referrer[1],
                                     !.peer = Some(users[referrer[1]])],
                  "createReferral")
  /\ UNCHANGED <<db, now, pre, begun, serial, sessions, chat>>

SignupCreateReferral(r) ==
  /\ At(r, "signup", "createReferral")
  /\ referrals' = createReferral(reqs[r].id, reqs[r].userId)
  /\ Goto(r, reqs[r], "bonusReferrer")
  /\ UNCHANGED <<users, listings, purchases, payments, gifts, now, pre, begun, serial, sessions, chat>>

\* updateUserBalance(referrer.id, (referrerBalance + 100).toFixed(2))
SignupBonusReferrer(r) ==
  /\ At(r, "signup", "bonusReferrer")
  /\ users' = updateUserBalance(reqs[r].id,
                                reqs[r].peer[1].balance + ReferrerBonus)
  /\ Goto(r, reqs[r], "bonusUser")
  /\ UNCHANGED <<listings, purchases, payments, gifts, referrals, now, pre, begun, serial, sessions, chat>>

\* updateUserBalance(user.id, (userBalance + 50).toFixed(2))
SignupBonusUser(r) ==
  /\ At(r, "signup", "bonusUser")
  /\ users' = updateUserBalance(reqs[r].userId,
                                reqs[r].user[1].balance + ReferredBonus)
  /\ Goto(r, reqs[r], "tail")
  /\ UNCHANGED <<listings, purchases, payments, gifts, referrals, now, pre, begun, serial, sessions, chat>>

\* notification, achievement, session, res.json
SignupTail(r) ==
  /\ At(r, "signup", "tail")
  /\ sessions' = sessions \cup {reqs[r].userId}
  /\ Respond(r, "200")
  /\ UNCHANGED <<db, now, pre, begun, serial, chat>>

---------------------------------------------------------------------------
(* POST /api/auth/login, POST /api/auth/logout *)

\* the credentials of a user who holds no session
BeginLogin(r) ==
  \E userId \in DOMAIN users \ sessions :
    Begin(r, [IdleReq EXCEPT !.kind = "login", !.pc = "getUser", !.userId = userId])

\* storage.getUserByUsername, the suspension and password tests,
\* req.session.userId = user.id
LoginChecks(r) ==
  /\ At(r, "login", "getUser")
  /\ IF users[reqs[r].userId].isSuspended
     THEN /\ Respond(r, "403 Your account has been suspended")
          /\ UNCHANGED sessions
     ELSE /\ sessions' = sessions \cup {reqs[r].userId}
          /\ Respond(r, "200")
  /\ UNCHANGED <<db, now, pre, begun, serial, chat>>

\* onlineUsers.delete(userId); req.session.destroy(...): no await
Logout ==
  /\ begun < MaxRequests
  /\ serial => Quiet
  /\ \E userId \in sessions :
       /\ onlineUsers' = [u \in DOMAIN onlineUsers \ {userId} |-> onlineUsers[u]]
       /\ sessions' = sessions \ {userId}
  /\ begun' = begun + 1
  /\ UNCHANGED <<db, now, reqs, pre, serial, connectedClients, sockets, announced>>

---------------------------------------------------------------------------
(* POST /api/marketplace *)

BeginCreateListing(r) ==
  /\ RoomFor("createListing", Len(listings), MaxListings)
  /\ \E userId \in sessions, price \in Prices :
       Begin(r, [IdleReq EXCEPT !.kind = "createListing", !.pc = "createListing",
                                !.userId = userId, !.amount = price])

\* storage.createListing(req.session.userId, {..., price, ...}): price as sent
ListingCreate(r) ==
  /\ At(r, "createListing", "createListing")
  /\ listings' = Append(listings, [sellerId |-> reqs[r].userId,
                                   price |-> reqs[r].amount,
                                   isActive |-> TRUE])
  /\ Goto(r, [reqs[r] EXCEPT !.id = Len(listings) + 1], "tail")
  /\ UNCHANGED <<users, purchases, payments, gifts, referrals, now, pre, begun, serial, sessions, chat>>

ListingTail(r) ==
  /\ At(r, "createListing", "tail")
  /\ Respond(r, "200")
  /\ UNCHANGED <<db, now, pre, begun, serial, sessions, chat>>

---------------------------------------------------------------------------
(* GET /api/marketplace/:id: no requireAuth; the caller holds a session or none *)

BeginViewListing(r) ==
  \E session \in {Null} \cup {Some(u) : u \in sessions}, id \in 1..MaxListings :
    Begin(r, [IdleReq EXCEPT !.kind = "viewListing", !.pc = "getListing",
                             !.session = session, !.id = id])

\* storage.getListing(req.params.id)
ViewGetListing(r) ==
  /\ At(r, "viewListing", "getListing")
  /\ IF reqs[r].id \notin 1..Len(listings)
     THEN Respond(r, "404 Listing not found")
     ELSE Goto(r, [reqs[r] EXCEPT !.listing = Some(listings[reqs[r].id])], "tail")
  /\ UNCHANGED <<db, now, pre, begun, serial, sessions, chat>>

\* views, seller, ratings, res.json({...listing, ...}): every column of the
\* listing, fileData included
ViewTail(r) ==
  /\ At(r, "viewListing", "tail")
  /\ Respond(r, "200 fileData")
  /\ UNCHANGED <<db, now, pre, begun, serial, sessions, chat>>

---------------------------------------------------------------------------
(* GET /api/marketplace/:id/download *)

BeginDownload(r) ==
  \E userId \in sessions, id \in 1..MaxListings :
    Begin(r, [IdleReq EXCEPT !.kind = "download", !.pc = "getListing",
                             !.userId = userId, !.session = Some(userId),
                             !.id = id])

\* storage.getListing(req.params.id)
DownloadGetListing(r) ==
  /\ At(r, "download", "getListing")
  /\ IF reqs[r].id \notin 1..Len(listings)
     THEN Respond(r, "404 Listing not found")
     ELSE Goto(r, [reqs[r] EXCEPT !.listing = Some(listings[reqs[r].id])],
               "hasPurchased")
  /\ UNCHANGED <<db, now, pre, begun, serial, sessions, chat>>

\* storage.hasPurchased, isSeller, storage.getUser, the test, res.json
DownloadChecks(r) ==
  /\ At(r, "download", "hasPurchased")
  /\ LET q == reqs[r]
         isSeller == q.listing[1].sellerId = q.userId
     IN IF ~hasPurchased(q.userId, q.id) /\ ~isSeller /\ ~users[q.userId].isAdmin
        THEN Respond(r, "403 You must purchase this file first")
        ELSE Respond(r, "200 fileData")
  /\ UNCHANGED <<db, now, pre, begun, serial, sessions, chat>>

---------------------------------------------------------------------------
(* DELETE /api/marketplace/:id *)

\* update marketplace_listings set isActive = false where id = ...
deleteListing(id) == [listings EXCEPT ![id].isActive = FALSE]

BeginDeleteListing(r) ==
  \E userId \in sessions, id \in 1..MaxListings :
    Begin(r, [IdleReq EXCEPT !.kind = "deleteListing", !.pc = "getListing",
                             !.userId = userId, !.id = id])

\* storage.getListing(req.params.id)
DeleteGetListing(r) ==
  /\ At(r, "deleteListing", "getListing")
  /\ IF reqs[r].id \notin 1..Len(listings)
     THEN Respond(r, "404 Listing not found")
     ELSE Goto(r, [reqs[r] EXCEPT !.listing = Some(listings[reqs[r].id])], "getUser")
  /\ UNCHANGED <<db, now, pre, begun, serial, sessions, chat>>

\* storage.getUser(req.session.userId), the authorization test
DeleteChecks(r) ==
  /\ At(r, "deleteListing", "getUser")
  /\ IF reqs[r].listing[1].sellerId # reqs[r].userId /\ ~users[reqs[r].userId].isAdmin
     THEN Respond(r, "403 Not authorized")
     ELSE Goto(r, reqs[r], "deleteListing")
  /\ UNCHANGED <<db, now, pre, begun, serial, sessions, chat>>

\* storage.deleteListing(req.params.id), res.json
DeleteListing(r) ==
  /\ At(r, "deleteListing", "deleteListing")
  /\ listings' = deleteListing(reqs[r].id)
  /\ Respond(r, "200")
  /\ UNCHANGED <<users, purchases, payments, gifts, referrals, now, pre, begun, serial, sessions, chat>>

---------------------------------------------------------------------------
(* POST /api/admin/toggle-suspend/:userId *)

BeginSuspend(r) ==
  \E caller \in sessions \cap {Admin}, userId \in DOMAIN users,
     isSuspended \in BOOLEAN :
    Begin(r, [IdleReq EXCEPT !.kind = "suspend", !.pc = "getUser",
                             !.userId = caller, !.id = userId,
                             !.isSuspended = isSuspended])

\* requireAdmin, storage.getUser(req.params.userId), the tests
SuspendChecks(r) ==
  /\ At(r, "suspend", "getUser")
  /\ IF ~users[reqs[r].userId].isAdmin
     THEN Respond(r, "403 Admin access required")
     ELSE IF reqs[r].id \notin DOMAIN users
     THEN Respond(r, "404 User not found")
     ELSE IF users[reqs[r].id].isAdmin
     THEN Respond(r, "400 Cannot suspend an admin")
     ELSE Goto(r, reqs[r], "updateUser")
  /\ UNCHANGED <<db, now, pre, begun, serial, sessions, chat>>

\* storage.updateUser(req.params.userId, { isSuspended }), res.json
SuspendUpdateUser(r) ==
  /\ At(r, "suspend", "updateUser")
  /\ users' = [users EXCEPT ![reqs[r].id].isSuspended = reqs[r].isSuspended]
  /\ Respond(r, "200")
  /\ UNCHANGED <<listings, purchases, payments, gifts, referrals, now, pre, begun, serial, sessions, chat>>

---------------------------------------------------------------------------
(* POST /api/marketplace/:id/purchase *)

BeginPurchase(r) ==
  /\ RoomFor("purchase", Len(purchases), MaxPurchases)
  /\ \E userId \in sessions, id \in 1..MaxListings :
       Begin(r, [IdleReq EXCEPT !.kind = "purchase", !.pc = "getListing",
                                !.userId = userId, !.id = id])

\* storage.getListing(req.params.id)
PurchaseGetListing(r) ==
  /\ At(r, "purchase", "getListing")
  /\ IF reqs[r].id \notin 1..Len(listings)
     THEN Respond(r, "404 Listing not found")
     ELSE Goto(r, [reqs[r] EXCEPT !.listing = Some(listings[reqs[r].id]),
                                  !.amount = listings[reqs[r].id].price],
               "getUser")
  /\ UNCHANGED <<db, now, pre, begun, serial, sessions, chat>>

\* storage.getUser(req.session.userId)
PurchaseGetUser(r) ==
  /\ At(r, "purchase", "getUser")
  /\ Goto(r, [reqs[r] EXCEPT !.user = Some(users[reqs[r].userId])], "hasPurchased")
  /\ UNCHANGED <<db, now, pre, begun, serial, sessions, chat>>

\* a seller's test of the own listing that lets every buyer through
OwnListingNever(listing, userId) == FALSE

\* if (listing.sellerId === req.session.userId)
OwnListing(listing, userId) == listing.sellerId = userId

\* a funds test that only asks for a positive balance
InsufficientBalanceZero(user, cost) ==
  ~user.hasInfiniteBalance /\ user.balance <= 0

\* if (!buyer.hasInfiniteBalance && buyerBalance < price), and the same test
\* of /api/verification/purchase with verificationCost
InsufficientBalance(user, cost) ==
  ~user.hasInfiniteBalance /\ user.balance < cost

\* checks after which every buyer is debited, of infinite balance or not
PurchaseChecksDebitAll(r) ==
  /\ At(r, "purchase", "hasPurchased")
  /\ LET q == reqs[r]
         listing == q.listing[1]
         buyer == q.user[1]
         price == listing.price
     IN IF hasPurchased(q.userId, q.id)
        THEN Respond(r, "400 You already own this file")
        ELSE IF OwnListing(listing, q.userId)
        THEN Respond(r, "400 You cannot buy your own listing")
        ELSE IF InsufficientBalance(buyer, price)
        THEN Respond(r, "400 Insufficient balance")
        ELSE Goto(r, q, "debit")
  /\ UNCHANGED <<db, now, pre, begun, serial, sessions, chat>>

\* storage.hasPurchased, then the checks up to the first write
PurchaseChecks(r) ==
  /\ At(r, "purchase", "hasPurchased")
  /\ LET q == reqs[r]
         listing == q.listing[1]
         buyer == q.user[1]
         price == listing.price
     IN IF hasPurchased(q.userId, q.id)
        THEN Respond(r, "400 You already own this file")
        ELSE IF OwnListing(listing, q.userId)
        THEN Respond(r, "400 You cannot buy your own listing")
        ELSE IF InsufficientBalance(buyer, price)
        THEN Respond(r, "400 Insufficient balance")
        ELSE Goto(r, q, IF ~buyer.hasInfiniteBalance THEN "debit" ELSE "getSeller")
  /\ UNCHANGED <<db, now, pre, begun, serial, sessions, chat>>

\* updateUserBalance(buyer.id, (buyerBalance - price).toFixed(2))
PurchaseDebit(r) ==
  /\ At(r, "purchase", "debit")
  /\ users' = updateUserBalance(reqs[r].userId,
                                reqs[r].user[1].balance - reqs[r].listing[1].price)
  /\ Goto(r, reqs[r], "getSeller")
  /\ UNCHANGED <<listings, purchases, payments, gifts, referrals, now, pre, begun, serial, sessions, chat>>

\* storage.getUser(listing.sellerId)
PurchaseGetSeller(r) ==
  /\ At(r, "purchase", "getSeller")
  /\ LET seller == users[reqs[r].listing[1].sellerId]
     IN Goto(r, [reqs[r] EXCEPT !.peer = Some(seller)],
             IF ~seller.hasInfiniteBalance THEN "credit" ELSE "createPurchase")
  /\ UNCHANGED <<db, now, pre, begun, serial, sessions, chat>>

\* the credit written to the buyer's row instead of the seller's
PurchaseCreditToBuyer(r) ==
  /\ At(r, "purchase", "credit")
  /\ users' = updateUserBalance(reqs[r].userId,
                                reqs[r].peer[1].balance + reqs[r].listing[1].price)
  /\ Goto(r, reqs[r], "earnings")
  /\ UNCHANGED <<listings, purchases, payments, gifts, referrals, now, pre, begun, serial, sessions, chat>>

\* updateUserBalance(seller.id, (sellerBalance + price).toFixed(2))
PurchaseCredit(r) ==
  /\ At(r, "purchase", "credit")
  /\ users' = updateUserBalance(reqs[r].listing[1].sellerId,
                                reqs[r].peer[1].balance + reqs[r].listing[1].price)
  /\ Goto(r, reqs[r], "earnings")
  /\ UNCHANGED <<listings, purchases, payments, gifts, referrals, now, pre, begun, serial, sessions, chat>>

\* updateUser(seller.id, { totalEarnings: (sellerEarnings + price).toFixed(2) })
PurchaseEarnings(r) ==
  /\ At(r, "purchase", "earnings")
  /\ users' = [users EXCEPT ![reqs[r].listing[1].sellerId].totalEarnings =
                 reqs[r].peer[1].totalEarnings + reqs[r].listing[1].price]
  /\ Goto(r, reqs[r], "createPurchase")
  /\ UNCHANGED <<listings, purchases, payments, gifts, referrals, now, pre, begun, serial, sessions, chat>>

\* storage.createPurchase({buyerId, sellerId, listingId, amount: listing.price})
PurchaseCreate(r) ==
  /\ At(r, "purchase", "createPurchase")
  /\ \E uuid \in Uuids :
       purchases' = createPurchase([buyerId |-> reqs[r].userId,
                                    sellerId |-> reqs[r].listing[1].sellerId,
                                    listingId |-> reqs[r].id,
                                    amount |-> reqs[r].listing[1].price], uuid)
  /\ Goto(r, reqs[r], "tail")
  /\ UNCHANGED <<users, listings, payments, gifts, referrals, now, pre, begun, serial, sessions, chat>>

\* incrementListingDownloads, notifications, achievement, res.json
PurchaseTail(r) ==
  /\ At(r, "purchase", "tail")
  /\ Respond(r, "200")
  /\ UNCHANGED <<db, now, pre, begun, serial, sessions, chat>>

---------------------------------------------------------------------------
(* POST /api/verification/purchase *)

BeginVerify(r) ==
  /\ RoomFor("verify", Len(payments), MaxPayments)
  /\ \E userId \in sessions :
       Begin(r, [IdleReq EXCEPT !.kind = "verify", !.pc = "getUser",
                                !.userId = userId, !.amount = VerificationCost])

\* a test that only sees a verification that was paid for
AlreadyVerifiedPaid(user) == user.verificationExpiry # Null

\* if (user.isVerified)
AlreadyVerified(user) == user.isVerified

\* storage.getUser(req.session.userId), then the checks up to the first write
VerifyChecks(r) ==
  /\ At(r, "verify", "getUser")
  /\ LET user == users[reqs[r].userId]
         verificationCost == VerificationCost
     IN IF AlreadyVerified(user)
        THEN Respond(r, "400 You are already verified")
        ELSE IF InsufficientBalance(user, verificationCost)
        THEN Respond(r, "400 Insufficient balance")
        ELSE Goto(r, [reqs[r] EXCEPT !.user = Some(user)],
                  IF ~user.hasInfiniteBalance THEN "debit" ELSE "insertPayment")
  /\ UNCHANGED <<db, now, pre, begun, serial, sessions, chat>>

\* updateUserBalance(user.id, (balance - verificationCost).toFixed(2))
VerifyDebit(r) ==
  /\ At(r, "verify", "debit")
  /\ users' = updateUserBalance(reqs[r].userId,
                                reqs[r].user[1].balance - VerificationCost)
  /\ Goto(r, reqs[r], "insertPayment")
  /\ UNCHANGED <<listings, purchases, payments, gifts, referrals, now, pre, begun, serial, sessions, chat>>

\* createVerificationPayment, first statement: insert into verification_payments
VerifyInsertPayment(r) ==
  /\ At(r, "verify", "insertPayment")
  /\ LET periodStart == now
         periodEnd == now + OneMonth
     IN /\ payments' = Append(payments,
                              [userId |-> reqs[r].userId, periodStart |-> periodStart,
                               periodEnd |-> periodEnd, amount |-> VerificationCost,
                               status |-> "active"])
        /\ Goto(r, [reqs[r] EXCEPT !.date = periodEnd], "updateUser")
  /\ UNCHANGED <<users, listings, purchases, gifts, referrals, now, pre, begun, serial, sessions, chat>>

\* the users update without the expiry
VerifyUpdateUserNoExpiry(r) ==
  /\ At(r, "verify", "updateUser")
  /\ users' = [users EXCEPT ![reqs[r].userId].isVerified = TRUE]
  /\ Goto(r, reqs[r], "tail")
  /\ UNCHANGED <<listings, purchases, payments, gifts, referrals, now, pre, begun, serial, sessions, chat>>

\* createVerificationPayment, second statement: update users set isVerified ...
VerifyUpdateUser(r) ==
  /\ At(r, "verify", "updateUser")
  /\ users' = [users EXCEPT ![reqs[r].userId].isVerified = TRUE,
                            ![reqs[r].userId].verificationExpiry = Some(reqs[r].date)]
  /\ Goto(r, reqs[r], "tail")
  /\ UNCHANGED <<listings, purchases, payments, gifts, referrals, now, pre, begun, serial, sessions, chat>>

\* createNotification, res.json
VerifyTail(r) ==
  /\ At(r, "verify", "tail")
  /\ Respond(r, "200")
  /\ UNCHANGED <<db, now, pre, begun, serial, sessions, chat>>

---------------------------------------------------------------------------
(* POST /api/admin/gift-money *)

BeginGift(r) ==
  /\ RoomFor("gift", Len(gifts), MaxGifts)
  /\ \E caller \in sessions \cap {Admin}, userId \in DOMAIN users, amount \in GiftAmounts :
       Begin(r, [IdleReq EXCEPT !.kind = "gift", !.pc = "getRecipient",
                                !.userId = caller, !.id = userId, !.amount = amount])

\* requireAdmin, the input check, storage.getUser(userId), storage.getUser(admin)
GiftChecks(r) ==
  /\ At(r, "gift", "getRecipient")
  /\ LET q == reqs[r]
     IN IF ~users[q.userId].isAdmin
        THEN Respond(r, "403 Admin access required")
        ELSE IF q.amount <= 0
        THEN Respond(r, "400 Invalid user or amount")
        ELSE IF q.id \notin DOMAIN users
        THEN Respond(r, "404 User not found")
        ELSE Goto(r, [q EXCEPT !.user = Some(users[q.id])],
                  IF ~users[q.id].hasInfiniteBalance THEN "credit" ELSE "createGift")
  /\ UNCHANGED <<db, now, pre, begun, serial, sessions, chat>>

\* a credit that writes the amount in place of the balance
GiftCreditAmountOnly(r) ==
  /\ At(r, "gift", "credit")
  /\ users' = updateUserBalance(reqs[r].id, reqs[r].amount)
  /\ Goto(r, reqs[r], "createGift")
  /\ UNCHANGED <<listings, purchases, payments, gifts, referrals, now, pre, begun, serial, sessions, chat>>

\* updateUserBalance(userId, (parseFloat(recipient.balance) + amount).toFixed(2))
GiftCredit(r) ==
  /\ At(r, "gift", "credit")
  /\ users' = updateUserBalance(reqs[r].id, reqs[r].user[1].balance + reqs[r].amount)
  /\ Goto(r, reqs[r], "createGift")
  /\ UNCHANGED <<listings, purchases, payments, gifts, referrals, now, pre, begun, serial, sessions, chat>>

\* storage.createMoneyGift({fromUserId, toUserId, amount})
GiftCreate(r) ==
  /\ At(r, "gift", "createGift")
  /\ gifts' = createMoneyGift([fromUserId |-> reqs[r].userId, toUserId |-> reqs[r].id,
                               amount |-> reqs[r].amount])
  /\ Goto(r, reqs[r], "tail")
  /\ UNCHANGED <<users, listings, purchases, payments, referrals, now, pre, begun, serial, sessions, chat>>

GiftTail(r) ==
  /\ At(r, "gift", "tail")
  /\ Respond(r, "200")
  /\ UNCHANGED <<db, now, pre, begun, serial, sessions, chat>>

---------------------------------------------------------------------------
(* POST /api/admin/toggle-verification/:userId *)

BeginToggle(r) ==
  \E caller \in sessions \cap {Admin}, userId \in DOMAIN users, isVerified \in BOOLEAN :
    Begin(r, [IdleReq EXCEPT !.kind = "toggle", !.pc = "getUser",
                             !.userId = caller, !.id = userId,
                             !.isVerified = isVerified])

\* requireAdmin, storage.getUser(req.params.userId)
ToggleChecks(r) ==
  /\ At(r, "toggle", "getUser")
  /\ IF ~users[reqs[r].userId].isAdmin
     THEN Respond(r, "403 Admin access required")
     ELSE IF reqs[r].id \notin DOMAIN users
     THEN Respond(r, "404 User not found")
     ELSE Goto(r, reqs[r], "updateUser")
  /\ UNCHANGED <<db, now, pre, begun, serial, sessions, chat>>

\* updateUser(userId, {isVerified, verifiedAt, verificationGrantedBy, verificationExpiry: null})
ToggleUpdateUser(r) ==
  /\ At(r, "toggle", "updateUser")
  /\ LET q == reqs[r]
     IN users' = [users EXCEPT
          ![q.id].isVerified = q.isVerified,
          ![q.id].verificationGrantedBy = IF q.isVerified THEN Some(q.userId) ELSE Null,
          ![q.id].verificationExpiry = Null]
  /\ Goto(r, reqs[r], "tail")
  /\ UNCHANGED <<listings, purchases, payments, gifts, referrals, now, pre, begun, serial, sessions, chat>>

ToggleTail(r) ==
  /\ At(r, "toggle", "tail")
  /\ Respond(r, "200")
  /\ UNCHANGED <<db, now, pre, begun, serial, sessions, chat>>

---------------------------------------------------------------------------
(* checkAndExpireVerifications, run by the hourly setInterval *)

\* SQL comparisons are three-valued: a comparison with NULL is NULL, and a
\* WHERE clause keeps a row only when its condition is TRUE.
SqlLt(a, b) == IF a = Null \/ b = Null THEN Null ELSE Some(a[1] < b[1])
SqlEq(a, b) == IF a = Null \/ b = Null THEN Null ELSE Some(a[1] = b[1])
SqlAnd(x, y) ==
  IF x = Some(FALSE) \/ y = Some(FALSE) THEN Some(FALSE)
  ELSE IF x = Null \/ y = Null THEN Null
  ELSE Some(TRUE)
SqlWhere(c) == c = Some(TRUE)

\* a filter that takes every active payment, whatever its period
ExpiredPaymentWhereActive(p, t) ==
  SqlWhere(SqlEq(Some(p.status), Some("active")))

\* and(eq(status, "active"), lt(periodEnd, now))
ExpiredPaymentWhere(p, t) ==
  SqlWhere(SqlAnd(SqlEq(Some(p.status), Some("active")),
                  SqlLt(Some(p.periodEnd), Some(t))))

\* a filter that takes every verified account
ExpiredUserWhereVerified(u, t) ==
  SqlWhere(SqlEq(Some(u.isVerified), Some(TRUE)))

\* and(eq(isVerified, true), lt(verificationExpiry, now),
\*     eq(verificationGrantedBy, sql`NULL`))
ExpiredUserWhere(u, t) ==
  SqlWhere(SqlAnd(SqlAnd(SqlEq(Some(u.isVerified), Some(TRUE)),
                         SqlLt(u.verificationExpiry, Some(t))),
                  SqlEq(u.verificationGrantedBy, Null)))

BeginSweep(r) ==
  /\ \A s \in Slots : ~(reqs[s].kind = "sweep" /\ InFlight(s))
  /\ Begin(r, [IdleReq EXCEPT !.kind = "sweep", !.pc = "expirePayments",
                              !.date = now])

\* an update that switches the status of every payment past its period
expirePaymentsSwitch(rows, t) ==
  [i \in 1..Len(rows) |->
     IF rows[i].periodEnd < t
     THEN [rows[i] EXCEPT !.status = IF @ = "active" THEN "expired" ELSE "active"]
     ELSE rows[i]]

\* the payments table after
\* update verification_payments set status = 'expired' where ...
expirePayments(rows, t) ==
  [i \in 1..Len(rows) |->
     IF ExpiredPaymentWhere(rows[i], t)
     THEN [rows[i] EXCEPT !.status = "expired"]
     ELSE rows[i]]

\* the users table after
\* update users set isVerified = false, verificationExpiry = null where ...
expireUsers(rows, t) ==
  [u \in DOMAIN rows |->
     IF ExpiredUserWhere(rows[u], t)
     THEN [rows[u] EXCEPT !.isVerified = FALSE, !.verificationExpiry = Null]
     ELSE rows[u]]

\* a sweep that deletes the payments past their period
SweepPaymentsDelete(r) ==
  /\ At(r, "sweep", "expirePayments")
  /\ payments' = SelectSeq(payments,
                           LAMBDA p : ~ExpiredPaymentWhere(p, reqs[r].date))
  /\ Goto(r, reqs[r], "expireUsers")
  /\ UNCHANGED <<users, listings, purchases, gifts, referrals, now, pre, begun, serial, sessions, chat>>

\* checkAndExpireVerifications, first statement
SweepPayments(r) ==
  /\ At(r, "sweep", "expirePayments")
  /\ payments' = expirePayments(payments, reqs[r].date)
  /\ Goto(r, reqs[r], "expireUsers")
  /\ UNCHANGED <<users, listings, purchases, gifts, referrals, now, pre, begun, serial, sessions, chat>>

\* checkAndExpireVerifications, second statement
SweepUsers(r) ==
  /\ At(r, "sweep", "expireUsers")
  /\ users' = expireUsers(users, reqs[r].date)
  /\ Respond(r, "200")
  /\ UNCHANGED <<listings, purchases, payments, gifts, referrals, now, pre, begun, serial, sessions, chat>>

---------------------------------------------------------------------------
(* Presence: the WebSocket server, POST /api/chat/heartbeat and the        *)
(* cleanup timer.                                                           *)

\* connectedClients.get(userId).add(ws), creating the set when absent
AddClient(userId, s) ==
  IF userId \in DOMAIN connectedClients
  THEN [connectedClients EXCEPT ![userId] = @ \cup {s}]
  ELSE connectedClients @@ (userId :> {s})

\* userSockets.delete(ws); the entry goes when the set is left empty
RemoveClient(userId, s) ==
  IF connectedClients[userId] \ {s} = {}
  THEN [u \in DOMAIN connectedClients \ {userId} |-> connectedClients[u]]
  ELSE [connectedClients EXCEPT ![userId] = @ \ {s}]

\* broadcastToChat({type, userId, username})
Broadcast(type, userId) ==
  IF userId \in DOMAIN announced
  THEN [announced EXCEPT ![userId] = type]
  ELSE announced @@ (userId :> type)

\* onlineUsers.set(userId, {username, lastSeen: new Date()})
SetOnline(userId) ==
  IF userId \in DOMAIN onlineUsers
  THEN [onlineUsers EXCEPT ![userId] = now]
  ELSE onlineUsers @@ (userId :> now)

\* wss.on('connection'): a client connects, its closure has userId = null
WsConnect(s) ==
  /\ sockets[s].state = "none"
  /\ \A t \in 1..(s - 1) : sockets[t].state # "none"
  /\ sockets' = [sockets EXCEPT ![s].state = "open"]
  /\ UNCHANGED <<db, now, reqs, pre, begun, serial, sessions,
                 connectedClients, onlineUsers, announced>>

\* ws.on('message') with type 'auth', up to the await: message.userId is
\* whatever the client sent, the id of a user or of nobody; the message
\* counts as a request
WsAuth(s) ==
  /\ sockets[s].state = "open"
  /\ begun < MaxRequests
  /\ begun' = begun + 1
  /\ \E userId \in 0..MaxUsers :
       /\ userId \notin sockets[s].pending
       /\ sockets' = [sockets EXCEPT ![s].userId = Some(userId),
                                     ![s].pending = @ \cup {userId}]
       /\ connectedClients' = AddClient(userId, s)
  /\ UNCHANGED <<db, now, reqs, pre, serial, sessions, onlineUsers, announced>>

\* the auth handler after `await storage.getUser(userId)`: the userId it
\* uses is the closure's, which a later auth message may have replaced
WsAuthResume(s) ==
  \E asked \in sockets[s].pending :
    /\ sockets' = [sockets EXCEPT ![s].pending = @ \ {asked}]
    /\ IF asked \in DOMAIN users
       THEN /\ onlineUsers' = SetOnline(sockets[s].userId[1])
            /\ announced' = Broadcast("user_online", sockets[s].userId[1])
       ELSE UNCHANGED <<onlineUsers, announced>>
    /\ UNCHANGED <<db, now, reqs, pre, begun, serial, sessions, connectedClients>>

\* ws.on('close')
WsClose(s) ==
  /\ sockets[s].state = "open"
  /\ sockets' = [sockets EXCEPT ![s].state = "closed"]
  /\ IF sockets[s].userId # Null /\ sockets[s].userId[1] \in DOMAIN connectedClients
     THEN LET userId == sockets[s].userId[1] IN
          /\ connectedClients' = RemoveClient(userId, s)
          /\ IF connectedClients[userId] \ {s} = {}
             THEN /\ onlineUsers' = [u \in DOMAIN onlineUsers \ {userId} |-> onlineUsers[u]]
                  /\ announced' = IF userId \in DOMAIN onlineUsers
                                  THEN Broadcast("user_offline", userId)
                                  ELSE announced
             ELSE UNCHANGED <<onlineUsers, announced>>
     ELSE UNCHANGED <<connectedClients, onlineUsers, announced>>
  /\ UNCHANGED <<db, now, reqs, pre, begun, serial, sessions>>

\* POST /api/chat/heartbeat: requireAuth
BeginHeartbeat(r) ==
  \E userId \in sessions :
    Begin(r, [IdleReq EXCEPT !.kind = "heartbeat", !.pc = "getUser",
                             !.userId = userId, !.session = Some(userId)])

\* after storage.getUser: onlineUsers.set(user.id, ...), res.json
HeartbeatSet(r) ==
  /\ At(r, "heartbeat", "getUser")
  /\ onlineUsers' = IF reqs[r].userId \in DOMAIN users
                    THEN SetOnline(reqs[r].userId) ELSE onlineUsers
  /\ Respond(r, "200")
  /\ UNCHANGED <<db, now, pre, begun, serial, sessions, connectedClients,
                 sockets, announced>>

\* the cleanup timer: entries last seen more than five minutes ago go; the
\* clock counts months, so an entry of an earlier tick is that old
Cleanup ==
  /\ \E id \in DOMAIN onlineUsers : onlineUsers[id] < now
  /\ onlineUsers' = [id \in {u \in DOMAIN onlineUsers : onlineUsers[u] >= now}
                       |-> onlineUsers[id]]
  /\ UNCHANGED <<db, now, reqs, pre, begun, serial, sessions, connectedClients,
                 sockets, announced>>

---------------------------------------------------------------------------
(* The environment *)

\* time passes
Tick ==
  /\ now < MaxTime
  /\ serial => Quiet
  /\ now' = now + 1
  /\ UNCHANGED <<db, reqs, pre, begun, serial, sessions, chat>>

\* the awaited storage call of a handler rejects: the handler's catch block
\* answers 500 (the sweep's .catch logs) and nothing is undone
StorageFailure(r) ==
  /\ serial
  /\ InFlight(r)
  /\ Respond(r, "500")
  /\ UNCHANGED <<db, now, pre, begun, serial, sessions, chat>>

---------------------------------------------------------------------------
(* Requests overlap: any handler in flight takes its next step. *)
Next ==
  \/ \E r \in Slots :
       \/ BeginSignup(r) \/ BeginCreateListing(r) \/ BeginPurchase(r)
       \/ BeginVerify(r) \/ BeginGift(r) \/ BeginToggle(r) \/ BeginSweep(r)
       \/ SignupCreateUser(r) \/ SignupGetReferrer(r) \/ SignupCreateReferral(r)
       \/ SignupBonusReferrer(r) \/ SignupBonusUser(r) \/ SignupTail(r)
       \/ ListingCreate(r) \/ ListingTail(r)
       \/ PurchaseGetListing(r) \/ PurchaseGetUser(r) \/ PurchaseChecks(r)
       \/ PurchaseDebit(r) \/ PurchaseGetSeller(r) \/ PurchaseCredit(r)
       \/ PurchaseEarnings(r) \/ PurchaseCreate(r) \/ PurchaseTail(r)
       \/ VerifyChecks(r) \/ VerifyDebit(r) \/ VerifyInsertPayment(r)
       \/ VerifyUpdateUser(r) \/ VerifyTail(r)
       \/ GiftChecks(r) \/ GiftCredit(r) \/ GiftCreate(r) \/ GiftTail(r)
       \/ ToggleChecks(r) \/ ToggleUpdateUser(r) \/ ToggleTail(r)
       \/ SweepPayments(r) \/ SweepUsers(r)
  \/ Tick

Spec == Init /\ [][Next]_vars

(* One request at a time, each running to its answer, and storage calls    *)
(* that may fail; pre is the database as the running request found it.     *)
SeqNext ==
  \/ Next
  \/ \E r \in Slots : StorageFailure(r) \/ BeginLogin(r) \/ LoginChecks(r)

SpecSeq == InitSeq /\ [][SeqNext]_vars

(* The marketplace and the accounts' access to it, one request at a time:  *)
(* signup, login and logout, listing creation, view, download, deletion,    *)
(* purchase, and the administrator's suspension of a user.                  *)
AccessNext ==
  \/ \E r \in Slots :
       \/ BeginSignup(r) \/ SignupCreateUser(r) \/ SignupGetReferrer(r)
       \/ SignupCreateReferral(r) \/ SignupBonusReferrer(r)
       \/ SignupBonusUser(r) \/ SignupTail(r)
       \/ BeginLogin(r) \/ LoginChecks(r)
       \/ BeginCreateListing(r) \/ ListingCreate(r) \/ ListingTail(r)
       \/ BeginViewListing(r) \/ ViewGetListing(r) \/ ViewTail(r)
       \/ BeginDownload(r) \/ DownloadGetListing(r) \/ DownloadChecks(r)
       \/ BeginDeleteListing(r) \/ DeleteGetListing(r) \/ DeleteChecks(r)
       \/ DeleteListing(r)
       \/ BeginSuspend(r) \/ SuspendChecks(r) \/ SuspendUpdateUser(r)
       \/ BeginPurchase(r) \/ PurchaseGetListing(r) \/ PurchaseGetUser(r)
       \/ PurchaseChecks(r) \/ PurchaseDebit(r) \/ PurchaseGetSeller(r)
       \/ PurchaseCredit(r) \/ PurchaseEarnings(r) \/ PurchaseCreate(r)
       \/ PurchaseTail(r)
  \/ Logout

SpecAccess == InitSeq /\ [][AccessNext]_vars

(* The verification subsystem on its own, with overlapping requests: the    *)
(* server after user 1 has signed up and received a gift that covers the    *)
(* fee, then verification purchases, administrator toggles, sweeps, time.   *)
GiftedUser == [NewUser EXCEPT !.balance = DefaultBalance + 7500]

InitVerification ==
  /\ users = (Admin :> AdminUser) @@ (1 :> GiftedUser)
  /\ listings = <<>>
  /\ purchases = <<>>
  /\ payments = <<>>
  /\ gifts = <<[fromUserId |-> Admin, toUserId |-> 1, amount |-> 7500]>>
  /\ referrals = <<>>
  /\ now = 0
  /\ reqs = [r \in Slots |-> IdleReq]
  /\ pre = [users |-> (Admin :> AdminUser) @@ (1 :> GiftedUser),
            purchases |-> <<>>, payments |-> <<>>,
            gifts |-> <<[fromUserId |-> Admin, toUserId |-> 1, amount |-> 7500]>>]
  /\ begun = 0
  /\ serial = FALSE
  /\ sessions = {Admin, 1}
  /\ NoChat

VerificationNext ==
  \/ \E r \in Slots :
       \/ BeginVerify(r) \/ BeginToggle(r) \/ BeginSweep(r)
       \/ VerifyChecks(r) \/ VerifyDebit(r) \/ VerifyInsertPayment(r)
       \/ VerifyUpdateUser(r) \/ VerifyTail(r)
       \/ ToggleChecks(r) \/ ToggleUpdateUser(r) \/ ToggleTail(r)
       \/ SweepPayments(r) \/ SweepUsers(r)
  \/ Tick

SpecVerification == InitVerification /\ [][VerificationNext]_vars

(* Presence on its own, with everything overlapping, from the state in     *)
(* which the administrator and user 1 hold sessions: clients connect, send  *)
(* auth messages and disconnect, users send heartbeats and log out, the     *)
(* cleanup timer fires, time passes.                                        *)
PresenceNext ==
  \/ \E s \in Sockets :
       \/ WsConnect(s) \/ WsAuth(s) \/ WsAuthResume(s) \/ WsClose(s)
  \/ \E r \in Slots :
       \/ BeginHeartbeat(r) \/ HeartbeatSet(r)
  \/ Logout
  \/ Cleanup
  \/ Tick

SpecPresence == InitVerification /\ [][PresenceNext]_vars

---------------------------------------------------------------------------
(* Vocabulary of the properties *)

\* request r has been answered
Done(r, kind) == reqs[r].kind = kind /\ reqs[r].pc = "done"

\* the tables a request may write are as the request found them
Untouched ==
  /\ users = pre.users
  /\ purchases = pre.purchases
  /\ payments = pre.payments
  /\ gifts = pre.gifts

BoughtBefore(userId, listingId) ==
  \E i \in 1..Len(pre.purchases) :
    pre.purchases[i].buyerId = userId /\ pre.purchases[i].listingId = listingId

RECURSIVE Sum(_)
Sum(amounts) ==
  IF amounts = <<>> THEN 0 ELSE Head(amounts) + Sum(Tail(amounts))

\* what the logs say account u received and paid since its sign-up
Credits(u) ==
  Sum([i \in 1..Len(purchases) |->
         IF purchases[i].sellerId = u THEN purchases[i].amount ELSE 0])
  + Sum([i \in 1..Len(gifts) |->
         IF gifts[i].toUserId = u THEN gifts[i].amount ELSE 0])
  + Sum([i \in 1..Len(referrals) |->
         IF referrals[i].referrerId = u THEN ReferrerBonus ELSE 0])
  + Sum([i \in 1..Len(referrals) |->
         IF referrals[i].referredId = u THEN ReferredBonus ELSE 0])

Debits(u) ==
  Sum([i \in 1..Len(purchases) |->
         IF purchases[i].buyerId = u THEN purchases[i].amount ELSE 0])
  + Sum([i \in 1..Len(payments) |->
         IF payments[i].userId = u THEN payments[i].amount ELSE 0])

ActivePayments(u) ==
  {i \in 1..Len(payments) : payments[i].userId = u /\ payments[i].status = "active"}

---------------------------------------------------------------------------
(* C1: a purchase by a buyer who is not the seller, has not bought the      *)
(* listing before and (unless of infinite balance) holds balance >= price   *)
(* > 0, once answered without a storage failure, has succeeded: the buyer's *)
(* balance is lower by exactly the price (unchanged if infinite), the       *)
(* seller's is higher by exactly the price (unchanged if infinite), and     *)
(* exactly one purchase record has been added, naming buyer, seller, price. *)
C1_PurchaseTransfers ==
  \A r \in Slots :
    (Done(r, "purchase") /\ reqs[r].id \in 1..Len(listings)) =>
      LET q == reqs[r]
          b == q.userId
          s == listings[q.id].sellerId
          price == listings[q.id].price
          buyer == pre.users[b]
          seller == pre.users[s]
      IN (/\ b # s
          /\ ~BoughtBefore(b, q.id)
          /\ buyer.hasInfiniteBalance \/ buyer.balance >= price
          /\ price > 0
          /\ q.res # "500")
         => /\ q.res = "200"
            /\ users[b].balance = IF buyer.hasInfiniteBalance THEN buyer.balance
                                  ELSE buyer.balance - price
            /\ users[s].balance = IF seller.hasInfiniteBalance THEN seller.balance
                                  ELSE seller.balance + price
            /\ Len(purchases) = Len(pre.purchases) + 1
            /\ SubSeq(purchases, 1, Len(pre.purchases)) = pre.purchases
            /\ LET p == purchases[Len(purchases)]
               IN /\ p.buyerId = b /\ p.sellerId = s
                  /\ p.listingId = q.id /\ p.amount = price

\* a purchase between two accounts of finite balance has succeeded
C1_Witness ==
  \E r \in Slots :
    /\ Done(r, "purchase") /\ reqs[r].res = "200" /\ reqs[r].amount > 0
    /\ ~pre.users[reqs[r].userId].hasInfiniteBalance
    /\ ~pre.users[listings[reqs[r].id].sellerId].hasInfiniteBalance
    /\ Len(purchases) = Len(pre.purchases) + 1

(* C2: whenever no request is in flight, every account of finite balance   *)
(* holds its starting balance plus every credit and minus every debit that *)
(* a request has made and answered for (no update is lost).                *)
C2_NoLostUpdate ==
  Quiet =>
    \A u \in DOMAIN users :
      ~users[u].hasInfiniteBalance =>
        users[u].balance = DefaultBalance + Credits(u) - Debits(u)

(* C3: every account that does not have infinite balance has balance >= 0. *)
C3_BalanceNonNegative ==
  \A u \in DOMAIN users : ~users[u].hasInfiniteBalance => users[u].balance >= 0

(* C4: a purchase or a verification purchase by an account of finite       *)
(* balance lower than the amount to debit does not succeed and leaves the   *)
(* users (balances, verified flags), the purchase log, the verification     *)
(* payments and the gifts as they were; when no earlier check rejects the   *)
(* request and no storage call fails, the answer is "Insufficient balance". *)
C4_InsufficientFunds ==
  \A r \in Slots :
    LET q == reqs[r]
        user == pre.users[q.userId]
    IN /\ (/\ Done(r, "purchase") /\ q.id \in 1..Len(listings)
           /\ ~user.hasInfiniteBalance /\ user.balance < listings[q.id].price)
          => /\ Untouched
             /\ q.res # "200"
             /\ (/\ listings[q.id].sellerId # q.userId
                 /\ ~BoughtBefore(q.userId, q.id)
                 /\ q.res # "500") => q.res = "400 Insufficient balance"
       /\ (/\ Done(r, "verify")
           /\ ~user.hasInfiniteBalance /\ user.balance < VerificationCost)
          => /\ Untouched
             /\ q.res # "200"
             /\ (~user.isVerified /\ q.res # "500")
                  => q.res = "400 Insufficient balance"

\* a purchase has been refused for lack of funds
C4_Witness ==
  \E r \in Slots :
    /\ Done(r, "purchase") /\ reqs[r].res = "400 Insufficient balance"
    /\ pre.users[reqs[r].userId].balance < listings[reqs[r].id].price

(* C5: whenever the purchase, gift or verification-purchase handler has     *)
(* answered with an error, the tables are as the request found them (none   *)
(* of its effects is committed).                                            *)
C5_AllOrNothing ==
  \A r \in Slots :
    (/\ Done(r, "purchase") \/ Done(r, "gift") \/ Done(r, "verify")
     /\ reqs[r].res # "200")
    => Untouched

(* C6: a purchase by the seller of the listing never succeeds, whatever the *)
(* balance and the price; it changes no balance and adds no purchase record *)
(* (and is refused as "own listing" unless a storage call fails).           *)
C6_SelfPurchase ==
  \A r \in Slots :
    (/\ Done(r, "purchase") /\ reqs[r].id \in 1..Len(listings)
     /\ listings[reqs[r].id].sellerId = reqs[r].userId)
    => /\ reqs[r].res # "200"
       /\ Untouched
       /\ reqs[r].res # "500" => reqs[r].res = "400 You cannot buy your own listing"

\* a seller has tried to buy the own listing
C6_Witness ==
  \E r \in Slots :
    /\ Done(r, "purchase")
    /\ reqs[r].res = "400 You cannot buy your own listing"
    /\ listings[reqs[r].id].sellerId = reqs[r].userId

(* C7: for a user who is not verified, has finite balance >= 5000, a        *)
(* verification purchase answered without a storage failure has succeeded:  *)
(* the balance is lower by exactly 5000, exactly one verification payment   *)
(* has been added, of status active and lasting one month, the verified     *)
(* flag is true and verificationExpiry equals that payment's periodEnd.     *)
C7_VerificationPurchase ==
  \A r \in Slots :
    LET q == reqs[r]
        u == q.userId
        user == pre.users[u]
        n == Len(payments)
    IN (/\ Done(r, "verify")
        /\ ~user.isVerified /\ ~user.hasInfiniteBalance
        /\ user.balance >= VerificationCost
        /\ q.res # "500")
       => /\ q.res = "200"
          /\ users[u].balance = user.balance - VerificationCost
          /\ n = Len(pre.payments) + 1
          /\ SubSeq(payments, 1, n - 1) = pre.payments
          /\ payments[n].userId = u
          /\ payments[n].status = "active"
          /\ payments[n].periodEnd = payments[n].periodStart + OneMonth
          /\ users[u].isVerified
          /\ users[u].verificationExpiry = Some(payments[n].periodEnd)

\* a user of finite balance has bought the verification
C7_Witness ==
  \E r \in Slots :
    /\ Done(r, "verify") /\ reqs[r].res = "200"
    /\ ~pre.users[reqs[r].userId].hasInfiniteBalance
    /\ users[reqs[r].userId].balance = pre.users[reqs[r].userId].balance - VerificationCost

(* C8: a verification purchase by a user whose verified flag is already     *)
(* true, by payment or by an administrator's grant, does not succeed and    *)
(* changes no balance, adds no verification payment and no purchase record. *)
C8_AlreadyVerified ==
  \A r \in Slots :
    (Done(r, "verify") /\ pre.users[reqs[r].userId].isVerified)
    => /\ reqs[r].res # "200"
       /\ Untouched
       /\ reqs[r].res # "500" => reqs[r].res = "400 You are already verified"

\* a user verified by payment has asked for the verification again
C8_Witness ==
  \E r \in Slots :
    /\ Done(r, "verify") /\ reqs[r].res = "400 You are already verified"
    /\ pre.users[reqs[r].userId].verificationExpiry # Null

(* C9: each account has at most one verification payment of status active. *)
C9_OneActivePayment ==
  \A u \in DOMAIN users : Cardinality(ActivePayments(u)) <= 1

(* C10: when the expiry sweep has run, every account that was verified,     *)
(* with verificationExpiry before the sweep's time and no administrator as  *)
(* grantor, has its verified flag cleared and its verificationExpiry null.  *)
C10_SweepClearsExpired ==
  \A r \in Slots :
    (Done(r, "sweep") /\ reqs[r].res = "200")
    => \A u \in DOMAIN pre.users :
         (/\ pre.users[u].isVerified
          /\ pre.users[u].verificationExpiry # Null
          /\ pre.users[u].verificationExpiry[1] < reqs[r].date
          /\ pre.users[u].verificationGrantedBy = Null)
         => /\ ~users[u].isVerified
            /\ users[u].verificationExpiry = Null

(* C11: the sweep's payments update sets to expired exactly the payments    *)
(* that are active with periodEnd before the sweep's time and changes no    *)
(* other payment and no account; its users update changes no payment and    *)
(* no account whose verificationExpiry is not before the sweep's time.      *)
(* This holds of each step, whatever other request is in flight.            *)
C11_SweepFrame ==
  [][\A r \in Slots :
       /\ (At(r, "sweep", "expirePayments") /\ reqs'[r] # reqs[r])
          => /\ Len(payments') = Len(payments)
             /\ \A i \in 1..Len(payments) :
                  payments'[i] =
                    IF payments[i].status = "active"
                       /\ payments[i].periodEnd < reqs[r].date
                    THEN [payments[i] EXCEPT !.status = "expired"]
                    ELSE payments[i]
             /\ users' = users
       /\ (At(r, "sweep", "expireUsers") /\ reqs'[r] # reqs[r])
          => /\ payments' = payments
             /\ \A u \in DOMAIN users :
                  (/\ users[u].verificationExpiry # Null
                   /\ users[u].verificationExpiry[1] >= reqs[r].date)
                  => users'[u] = users[u]
    ]_vars

\* a sweep that has expired a payment is in flight together with the
\* verification purchase of another account, whose payment stays active
C11_Witness ==
  \E r, s \in Slots, i, j \in 1..Len(payments) :
    /\ At(r, "sweep", "expireUsers")
    /\ payments[i].status = "expired"
    /\ At(s, "verify", "updateUser")
    /\ payments[j].userId = reqs[s].userId
    /\ payments[j].userId # payments[i].userId
    /\ payments[j].status = "active"
    /\ payments[j].periodEnd >= reqs[r].date

\* the verification of account u is an administrator's grant
AdminGranted(u) ==
  u.isVerified /\ u.verificationExpiry = Null /\ u.verificationGrantedBy # Null

(* C12: no step of the expiry sweep, at any time, changes an account whose  *)
(* verification was granted by an administrator (verificationExpiry null,   *)
(* verificationGrantedBy set): its verified flag stays true.                *)
C12_AdminGrantKept ==
  [][\A r \in Slots :
       (reqs[r].kind = "sweep" /\ InFlight(r) /\ reqs'[r] # reqs[r])
       => \A u \in DOMAIN users :
            AdminGranted(users[u]) => users'[u] = users[u]
    ]_vars

\* a sweep has run, later than the start, over an account verified by grant
C12_Witness ==
  \E r \in Slots, u \in DOMAIN users :
    /\ Done(r, "sweep") /\ reqs[r].res = "200" /\ reqs[r].date > 0
    /\ u \in DOMAIN pre.users /\ AdminGranted(pre.users[u])
    /\ AdminGranted(users[u])

(* C13: right after a sweep has run to its end, with no other operation and *)
(* no passage of time, a second run of the sweep changes no verification    *)
(* payment and no account.                                                  *)
C13_SweepIdempotent ==
  \A r \in Slots :
    (Done(r, "sweep") /\ reqs[r].res = "200" /\ now = reqs[r].date)
    => /\ expirePayments(payments, now) = payments
       /\ expireUsers(users, now) = users

\* a sweep that expired a payment has just run
C13_Witness ==
  \E r \in Slots, i \in 1..Len(pre.payments) :
    /\ Done(r, "sweep") /\ reqs[r].res = "200" /\ now = reqs[r].date
    /\ pre.payments[i].status = "active"
    /\ payments[i].status = "expired"

(* C14: in every step every verification payment stays in the table with   *)
(* its account and period, and its status either stays as it is or moves    *)
(* from active to expired or to cancelled: nothing leaves expired or        *)
(* cancelled and no payment is deleted.                                     *)
C14_PaymentStatus ==
  [][/\ Len(payments') >= Len(payments)
     /\ \A i \in 1..Len(payments) :
          /\ [payments'[i] EXCEPT !.status = payments[i].status] = payments[i]
          /\ payments'[i].status # payments[i].status
             => /\ payments[i].status = "active"
                /\ payments'[i].status \in {"expired", "cancelled"}
    ]_vars

\* a payment has expired and the account has bought a further one
C14_Witness ==
  \E i, j \in 1..Len(payments) :
    /\ payments[i].status = "expired"
    /\ i < j
    /\ payments[j].userId = payments[i].userId

(* C15: every purchase record has amount > 0 and a buyer different from     *)
(* its seller.                                                              *)
C15_PurchaseRecordValid ==
  \A i \in 1..Len(purchases) :
    purchases[i].amount > 0 /\ purchases[i].buyerId # purchases[i].sellerId

(* C16: in every step the purchase log keeps every record it holds, each    *)
(* with all its fields, and only grows.                                     *)
C16_PurchaseLogAppendOnly ==
  [][/\ Len(purchases') >= Len(purchases)
     /\ SubSeq(purchases', 1, Len(purchases)) = purchases
    ]_vars

\* a record has been added to a log that already held one
C16_Witness == Len(purchases) = 2

(* C17: a verification purchase that has succeeded for an account of finite *)
(* balance has added exactly one purchase record, debiting that account for *)
(* the fixed fee; for an account of infinite balance it has added none.     *)
C17_PaymentReceipt ==
  \A r \in Slots :
    (Done(r, "verify") /\ reqs[r].res = "200")
    => LET u == reqs[r].userId
           n == Len(purchases)
       IN IF pre.users[u].hasInfiniteBalance
          THEN purchases = pre.purchases
          ELSE /\ n = Len(pre.purchases) + 1
               /\ SubSeq(purchases, 1, n - 1) = pre.purchases
               /\ purchases[n].buyerId = u
               /\ purchases[n].amount = VerificationCost

(* C18: a purchase or a gift that has succeeded and whose payee has finite  *)
(* balance has raised the payee's totalEarnings by exactly the amount,      *)
(* together with the balance.                                               *)
C18_EarningsFollowCredit ==
  \A r \in Slots :
    /\ (Done(r, "purchase") /\ reqs[r].res = "200")
       => LET s == listings[reqs[r].id].sellerId
              price == listings[reqs[r].id].price
          IN ~pre.users[s].hasInfiniteBalance
             => /\ users[s].balance = pre.users[s].balance + price
                /\ users[s].totalEarnings = pre.users[s].totalEarnings + price
    /\ (Done(r, "gift") /\ reqs[r].res = "200")
       => LET t == reqs[r].id
          IN ~pre.users[t].hasInfiniteBalance
             => /\ users[t].balance = pre.users[t].balance + reqs[r].amount
                /\ users[t].totalEarnings = pre.users[t].totalEarnings + reqs[r].amount

(* C19: a gift of amount > 0 from an administrator A to an existing account *)
(* B, answered without a storage failure, has succeeded: A's balance is     *)
(* lower by the amount unless A has infinite balance, B's balance is higher *)
(* by exactly the amount unless B has infinite balance, and exactly one     *)
(* gift record has been added, naming A, B and the amount.                  *)
C19_GiftTransfers ==
  \A r \in Slots :
    LET q == reqs[r]
        a == q.userId
        b == q.id
    IN (/\ Done(r, "gift") /\ q.amount > 0
        /\ pre.users[a].isAdmin /\ b \in DOMAIN pre.users
        /\ q.res # "500")
       => /\ q.res = "200"
          /\ a # b => users[a].balance =
                        IF pre.users[a].hasInfiniteBalance THEN pre.users[a].balance
                        ELSE pre.users[a].balance - q.amount
          /\ users[b].balance =
               IF pre.users[b].hasInfiniteBalance THEN pre.users[b].balance
               ELSE pre.users[b].balance + q.amount
          /\ gifts = Append(pre.gifts,
                            [fromUserId |-> a, toUserId |-> b, amount |-> q.amount])

\* an account of finite balance has received a gift
C19_Witness ==
  \E r \in Slots :
    /\ Done(r, "gift") /\ reqs[r].res = "200"
    /\ ~pre.users[reqs[r].id].hasInfiniteBalance
    /\ users[reqs[r].id].balance = pre.users[reqs[r].id].balance + reqs[r].amount
    /\ Len(gifts) = Len(pre.gifts) + 1

(* C20: a gift whose recipient is the administrator who sends it does not   *)
(* succeed, changes no balance and adds no gift record.                     *)
C20_SelfGift ==
  \A r \in Slots :
    (Done(r, "gift") /\ reqs[r].id = reqs[r].userId)
    => reqs[r].res # "200" /\ Untouched

(* C21: a request that is not a purchase, a gift or a verification purchase *)
(* (a signup with or without referral code, a listing creation, a toggle,   *)
(* a sweep) leaves the balance of every account that existed when it began  *)
(* as it was.                                                               *)
C21_BalanceOnlyByLedger ==
  \A r \in Slots :
    (reqs[r].pc = "done" /\ reqs[r].kind \notin {"purchase", "gift", "verify"})
    => \A u \in DOMAIN pre.users : users[u].balance = pre.users[u].balance

(* C22: no request lowers the balance of an account of infinite balance; a  *)
(* purchase by such an account (of another's listing, not bought before)    *)
(* and a verification purchase by such an account (not verified), answered  *)
(* without a storage failure, have succeeded for every price with the       *)
(* balance unchanged, the verification purchase adding an active payment.   *)
C22_InfiniteBalanceKept ==
  \A r \in Slots :
    LET q == reqs[r]
        u == q.userId
        n == Len(payments)
    IN /\ q.pc = "done"
          => \A a \in DOMAIN pre.users :
               pre.users[a].hasInfiniteBalance
               => users[a].balance >= pre.users[a].balance
       /\ (/\ Done(r, "purchase") /\ q.id \in 1..Len(listings)
           /\ pre.users[u].hasInfiniteBalance
           /\ listings[q.id].sellerId # u /\ ~BoughtBefore(u, q.id)
           /\ q.res # "500")
          => /\ q.res = "200"
             /\ users[u].balance = pre.users[u].balance
             /\ Len(purchases) = Len(pre.purchases) + 1
       /\ (/\ Done(r, "verify")
           /\ pre.users[u].hasInfiniteBalance /\ ~pre.users[u].isVerified
           /\ q.res # "500")
          => /\ q.res = "200"
             /\ users[u].balance = pre.users[u].balance
             /\ n = Len(pre.payments) + 1
             /\ payments[n].userId = u /\ payments[n].status = "active"

\* an account of infinite balance, its verification switched off before,
\* has bought the verification
C22_Witness ==
  \E r \in Slots :
    /\ Done(r, "verify") /\ reqs[r].res = "200"
    /\ pre.users[reqs[r].userId].hasInfiniteBalance
    /\ Len(payments) = Len(pre.payments) + 1

(* C24: whenever no request is in flight, every user whose verified flag is *)
(* true and whose verificationExpiry is not null owns a verification        *)
(* payment of status active whose periodEnd equals that verificationExpiry. *)
C24_FlagMatchesPayment ==
  Quiet =>
    \A u \in DOMAIN users :
      (users[u].isVerified /\ users[u].verificationExpiry # Null)
      => \E i \in ActivePayments(u) :
           payments[i].periodEnd = users[u].verificationExpiry[1]

(* C25: there is at most one purchase record for each buyer and listing.    *)
C25_OwnAtMostOnce ==
  \A i, j \in 1..Len(purchases) :
    (purchases[i].buyerId = purchases[j].buyerId
     /\ purchases[i].listingId = purchases[j].listingId) => i = j

(* C23: no two purchase records carry the same transactionId.               *)
C23_TransactionIdUnique ==
  \A i, j \in 1..Len(purchases) :
    purchases[i].transactionId = purchases[j].transactionId => i = j

\* the caller of request r is the seller of listing id, has bought it or is
\* an administrator
Entitled(session, id) ==
  /\ session # Null
  /\ \/ hasPurchased(session[1], id)
     \/ listings[id].sellerId = session[1]
     \/ users[session[1]].isAdmin

(* C26: every answer that carries the fileData of a listing went to a       *)
(* caller who holds a session and has bought the listing, is its seller or  *)
(* is an administrator.                                                     *)
C26_FileDataAccess ==
  \A r \in Slots :
    (reqs[r].pc = "done" /\ reqs[r].res = "200 fileData")
    => Entitled(reqs[r].session, reqs[r].id)

(* C27: a purchase request for a listing that has been deleted (isActive =  *)
(* false) does not succeed: it changes no balance and adds no purchase      *)
(* record.                                                                  *)
C27_DeletedNotPurchasable ==
  \A r \in Slots :
    (/\ Done(r, "purchase") /\ reqs[r].id \in 1..Len(listings)
     /\ ~listings[reqs[r].id].isActive)
    => reqs[r].res # "200" /\ Untouched

(* C28: no purchase, verification purchase or listing creation requested by *)
(* a suspended user succeeds, whenever the session was established.         *)
C28_SuspendedBlocked ==
  \A r \in Slots :
    (/\ reqs[r].pc = "done"
     /\ reqs[r].kind \in {"purchase", "verify", "createListing"}
     /\ users[reqs[r].userId].isSuspended)
    => reqs[r].res # "200"

\* some open socket is registered for the user
HasOpenSocket(userId) ==
  /\ userId \in DOMAIN connectedClients
  /\ \E s \in connectedClients[userId] : sockets[s].state = "open"

\* this step closes a socket that was registered for the user
ClosesSocketOf(userId) ==
  /\ userId \in DOMAIN connectedClients
  /\ \E s \in connectedClients[userId] :
       sockets[s].state = "open" /\ sockets'[s].state = "closed"

(* C29: no entry of connectedClients is an empty set, and a socket that has  *)
(* closed is in no user's set, whatever auth messages it sent before.        *)
C29_RegistryClean ==
  /\ \A u \in DOMAIN connectedClients : connectedClients[u] # {}
  /\ \A s \in Sockets :
       sockets[s].state = "closed"
       => \A u \in DOMAIN connectedClients : s \notin connectedClients[u]

(* C30: after every step, a user for whom user_online was broadcast and who *)
(* has no open socket left has had user_offline broadcast since; and the     *)
(* step that closes the last open socket of such a user leaves the user out  *)
(* of onlineUsers.                                                           *)
C30_PresencePaired ==
  [][\A u \in DOMAIN announced' :
       ~HasOpenSocket(u)'
       => /\ announced'[u] = "user_offline"
          /\ ClosesSocketOf(u) => u \notin DOMAIN onlineUsers']_vars

====
